---------------------------- MODULE Spec2Model ----------------------------
(***************************************************************************)
(* A model of tastytrade-rs: the session client (src/client.rs) and the    *)
(* order data model with its wire codecs (src/api/order.rs).               *)
(*                                                                         *)
(* Three specifications share the module:                                  *)
(*   SpecClient   login, get and post against a network and a server;      *)
(*   SpecBuilder  the derive_builder-generated OrderBuilder;               *)
(*   SpecWire     the serde codecs: enums, decimals and records.           *)
(***************************************************************************)
EXTENDS Integers, Sequences, FiniteSets, TLC

VARIABLES
    \* ---- session client (src/client.rs)
    loginPc,      \* position of the login call
    loginSent,    \* requests the login call has issued
    loginResp,    \* what the transport handed back to the login call
    loginResult,  \* what login returned
    client,       \* the TastyTrade value login constructed, or NoClient
    pc,           \* position of each get/post call
    method,       \* "get" or "post", per call
    payload,      \* the payload handed to post, per call
    sent,         \* requests each call has issued
    requests,     \* every request put on the wire by get/post
    arrived,      \* the responses, in order of arrival at the process
    result,       \* what each call returned
    sink,         \* the bodies printed by the inspect_json closure
    \* ---- order builder (src/api/order.rs, Order)
    builder,      \* the OrderBuilder's five optional fields
    lastSet,      \* the argument of the latest setter call, per field
    built,        \* what the latest build() returned
    \* ---- wire codecs (src/api/order.rs)
    op,           \* the codec operation applied last
    input,        \* its input
    output        \* its output

clientVars == <<loginPc, loginSent, loginResp, loginResult, client, pc, method,
                payload, sent, requests, arrived, result, sink>>
builderVars == <<builder, lastSet, built>>
wireVars == <<op, input, output>>
vars == <<clientVars, builderVars, wireVars>>

(***************************************************************************)
(*                       SESSION CLIENT  (client.rs)                       *)
(***************************************************************************)

\* Concurrent get/post calls issued from the one client value.
NCalls == 2
Calls == 1..NCalls

\* HTTP status codes the server may answer with.
Statuses == {200, 401}

\* Session tokens the server may hand out.  "tok\n" holds a control
\* character, which HeaderValue::from_str rejects.
Tokens == {"tokA", "tokB", "tok\n"}

\* HeaderValue::from_str(&response.session_token): Ok for visible ASCII.
HeaderValueFromStrOk(t) == t \in {"tokA", "tokB"}

\* Payloads handed to post.  "nonStringKeyMap" stands for a value whose
\* Serialize impl fails (serde_json::to_string returns Err).
Payloads == {"order", "nonStringKeyMap"}

\* serde_json::to_string(&payload): Ok or Err.
ToStringOk(p) == p = "order"

\* Typed payloads a success envelope may carry for get/post.
Datas == {"d1", "d2"}

\* Response bodies by shape: {data: ..}, {error: {code, message}}, other.
Body(shape, data, code, message) ==
    [shape |-> shape, data |-> data, code |-> code, message |-> message]

SuccessBody(d) == Body("success", d, "", "")
ErrorBody == Body("error", "", "x", "y")
MalformedBody == Body("malformed", "", "", "")

CallBodies == {SuccessBody(d) : d \in Datas} \cup {ErrorBody, MalformedBody}
LoginBodies == {SuccessBody(t) : t \in Tokens} \cup {ErrorBody, MalformedBody}

\* What .send().await hands back: a transport error or a response.
TransportFailure(c) ==
    [for |-> c, ok |-> FALSE, status |-> 0, body |-> MalformedBody]
Response(c, st, b) == [for |-> c, ok |-> TRUE, status |-> st, body |-> b]

NoResp == [for |-> 0, ok |-> FALSE, status |-> 0, body |-> MalformedBody]

\* Result<T> values.
NoResult == [tag |-> "None", kind |-> "", data |-> "", code |-> "", message |-> ""]
Ok(d) == [tag |-> "Ok", kind |-> "", data |-> d, code |-> "", message |-> ""]
Err(k, code, m) == [tag |-> "Err", kind |-> k, data |-> "", code |-> code, message |-> m]

NoClient == [exists |-> FALSE, session_token |-> "", default_auth |-> ""]

\* TastyApiResponse<T>: Success(Response{data}) | Error{error}, decoded from
\* the body by its structure.
DecodeEnvelope(b) ==
    CASE b.shape = "success" -> [tag |-> "Success", data |-> b.data,
                                 code |-> "", message |-> ""]
      [] b.shape = "error" -> [tag |-> "Error", data |-> "",
                               code |-> b.code, message |-> b.message]
      [] OTHER -> [tag |-> "Undecodable", data |-> "", code |-> "", message |-> ""]

\* resp.inspect_json::<TastyApiResponse<T>, TastyError>(..): the body text is
\* read and decoded; the response's status code is never consulted.
InspectJson(r) == DecodeEnvelope(r.body)

\* match result { Success(s) => Ok(s.data), Error{error} => Err(error.into()) }
\* with the two `?` before it: transport error, then decode error.
Outcome(r) ==
    IF ~r.ok THEN Err("Transport", "", "")
    ELSE LET j == InspectJson(r) IN
         CASE j.tag = "Success" -> Ok(j.data)
           [] j.tag = "Error" -> Err("Broker", j.code, j.message)
           [] OTHER -> Err("Decode", "", "")

ClientInit ==
    /\ loginPc = "idle"
    /\ loginSent = 0
    /\ loginResp = NoResp
    /\ loginResult = NoResult
    /\ client = NoClient
    /\ pc = [c \in Calls |-> "idle"]
    /\ method = [c \in Calls |-> "none"]
    /\ payload = [c \in Calls |-> "none"]
    /\ sent = [c \in Calls |-> 0]
    /\ requests = {}
    /\ arrived = <<>>
    /\ result = [c \in Calls |-> NoResult]
    /\ sink = {}

\* A client built without the default headers: the bare reqwest::Client::new()
\* of line 26 kept in Self.
BuildClientNoHeaders(token) ==
    [exists |-> TRUE, session_token |-> token, default_auth |-> ""]

\* login, lines 45-67: the default headers carry the session token, and the
\* client built with them is the one stored in Self.
BuildClient(token) ==
    [exists |-> TRUE, session_token |-> token, default_auth |-> token]

\* A response slot shared by all calls: whatever arrived last.
ResponseOfShared(c) == arrived[Len(arrived)]

\* The response a call's own `.send().await` future resolves to.
ResponseOf(c) ==
    LET i == CHOOSE k \in 1..Len(arrived) : arrived[k].for = c IN arrived[i]

HasResponse(c) == \E k \in 1..Len(arrived) : arrived[k].for = c

\* login, lines 26-35: one POST /sessions is sent.
LoginSend ==
    /\ loginPc = "idle"
    /\ loginPc' = "awaiting"
    /\ loginSent' = loginSent + 1
    /\ UNCHANGED <<loginResp, loginResult, client, pc, method, payload, sent,
                   requests, arrived, result, sink>>
    /\ UNCHANGED <<builderVars, wireVars>>

\* login, lines 35-68, once the transport has completed with r.
LoginFinish(r) ==
    /\ loginPc = "awaiting"
    /\ loginResp' = r
    /\ sink' = IF r.ok THEN sink \cup {r.body} ELSE sink
    /\ LET o == Outcome(r) IN
       IF o.tag = "Err"
       THEN /\ loginResult' = o
            /\ loginPc' = "done"
            /\ UNCHANGED client
       ELSE IF HeaderValueFromStrOk(o.data)
            THEN /\ client' = BuildClient(o.data)
                 /\ loginResult' = Ok(o.data)
                 /\ loginPc' = "done"
            ELSE \* HeaderValue::from_str(..).unwrap() on Err: panic
                 /\ loginPc' = "panicked"
                 /\ UNCHANGED <<loginResult, client>>
    /\ UNCHANGED <<loginSent, pc, method, payload, sent, requests, arrived,
                   result>>
    /\ UNCHANGED <<builderVars, wireVars>>

LoginComplete ==
    \/ LoginFinish(TransportFailure(0))
    \/ \E st \in Statuses, b \in LoginBodies : LoginFinish(Response(0, st, b))

\* get, lines 71-76: the request leaves with the client's default headers.
GetSend(c) ==
    /\ client.exists
    /\ pc[c] = "idle"
    /\ method' = [method EXCEPT ![c] = "get"]
    /\ sent' = [sent EXCEPT ![c] = @ + 1]
    /\ requests' = requests \cup
           {[call |-> c, method |-> "get", auth |-> client.default_auth,
             body |-> ""]}
    /\ pc' = [pc EXCEPT ![c] = "awaiting"]
    /\ UNCHANGED <<loginPc, loginSent, loginResp, loginResult, client, payload,
                   arrived, result, sink>>
    /\ UNCHANGED <<builderVars, wireVars>>

\* post, lines 96-101: the payload is serialized (unwrap), then sent.
PostSend(c, p) ==
    /\ client.exists
    /\ pc[c] = "idle"
    /\ method' = [method EXCEPT ![c] = "post"]
    /\ payload' = [payload EXCEPT ![c] = p]
    /\ IF ToStringOk(p)
       THEN /\ sent' = [sent EXCEPT ![c] = @ + 1]
            /\ requests' = requests \cup
                   {[call |-> c, method |-> "post",
                     auth |-> client.default_auth, body |-> p]}
            /\ pc' = [pc EXCEPT ![c] = "awaiting"]
       ELSE \* serde_json::to_string(&payload).unwrap() on Err: panic
            /\ pc' = [pc EXCEPT ![c] = "panicked"]
            /\ UNCHANGED <<sent, requests>>
    /\ UNCHANGED <<loginPc, loginSent, loginResp, loginResult, client, arrived,
                   result, sink>>
    /\ UNCHANGED <<builderVars, wireVars>>

\* The transport completes call c's request: a failure or a response.
Deliver(c, r) ==
    /\ pc[c] = "awaiting"
    /\ ~HasResponse(c)
    /\ arrived' = Append(arrived, r)
    /\ UNCHANGED <<loginPc, loginSent, loginResp, loginResult, client, pc,
                   method, payload, sent, requests, result, sink>>
    /\ UNCHANGED <<builderVars, wireVars>>

Transport(c) ==
    \/ Deliver(c, TransportFailure(c))
    \/ \E st \in Statuses, b \in CallBodies : Deliver(c, Response(c, st, b))

\* get lines 77-87, post lines 102-112: the awaiting call resumes.
Return(c) ==
    /\ pc[c] = "awaiting"
    /\ HasResponse(c)
    /\ LET r == ResponseOf(c) IN
       /\ sink' = IF r.ok THEN sink \cup {r.body} ELSE sink
       /\ result' = [result EXCEPT ![c] = Outcome(r)]
    /\ pc' = [pc EXCEPT ![c] = "done"]
    /\ UNCHANGED <<loginPc, loginSent, loginResp, loginResult, client, method,
                   payload, sent, requests, arrived>>
    /\ UNCHANGED <<builderVars, wireVars>>

ClientNext ==
    \/ LoginSend
    \/ LoginComplete
    \/ \E c \in Calls : GetSend(c)
    \/ \E c \in Calls, p \in Payloads : PostSend(c, p)
    \/ \E c \in Calls : Transport(c)
    \/ \E c \in Calls : Return(c)

(***************************************************************************)
(*                 WIRE ENUM MAPPING  (order.rs, lines 7-84)               *)
(***************************************************************************)

Enums == {"PriceEffect", "Action", "InstrumentType", "OrderType",
          "TimeInForce", "OrderStatus"}

\* The variants of each enum, in declaration order.
PriceEffectVariants == <<"Debit", "Credit", "None">>
ActionVariants ==
    <<"BuyToOpen", "SellToOpen", "BuyToClose", "SellToClose", "Sell", "Buy">>
InstrumentTypeVariants ==
    <<"Equity", "EquityOption", "EquityOffering", "Future", "FutureOption",
      "Cryptocurrency">>
OrderTypeVariants ==
    <<"Limit", "Market", "MarketableLimit", "Stop", "StopLimit",
      "NotionalMarket">>
TimeInForceVariants == <<"Day", "GTC", "GTD", "Ext", "GTCExt", "IOC">>
OrderStatusVariants ==
    <<"Received", "Routed", "InFlight", "Live", "CancelRequested",
      "ReplaceRequested", "Contingent", "Filled", "Cancelled", "Expired",
      "Rejected", "Removed", "PartiallyRemoved">>

\* The #[serde(rename = "...")] attributes of each enum.
PriceEffectRename == <<>>
\* Action's renames with SellToOpen given BuyToOpen's string.
ActionRenameCopyPaste ==
    [BuyToOpen |-> "Buy to Open", SellToOpen |-> "Buy to Open",
     BuyToClose |-> "Buy to Close", SellToClose |-> "Sell to Close"]
ActionRename ==
    [BuyToOpen |-> "Buy to Open", SellToOpen |-> "Sell to Open",
     BuyToClose |-> "Buy to Close", SellToClose |-> "Sell to Close"]
InstrumentTypeRename ==
    [EquityOption |-> "Equity Option", EquityOffering |-> "Equity Offering",
     FutureOption |-> "Future Option"]
OrderTypeRename ==
    [MarketableLimit |-> "Marketable Limit", StopLimit |-> "Stop Limit",
     NotionalMarket |-> "Notional Market"]
TimeInForceRename == [GTCExt |-> "GTC Ext"]
OrderStatusRename ==
    [InFlight |-> "In Flight", CancelRequested |-> "Cancel Requested",
     ReplaceRequested |-> "Replace Requested",
     PartiallyRemoved |-> "Partially Removed"]

Variants(e) ==
    CASE e = "PriceEffect" -> PriceEffectVariants
      [] e = "Action" -> ActionVariants
      [] e = "InstrumentType" -> InstrumentTypeVariants
      [] e = "OrderType" -> OrderTypeVariants
      [] e = "TimeInForce" -> TimeInForceVariants
      [] e = "OrderStatus" -> OrderStatusVariants

Rename(e) ==
    CASE e = "PriceEffect" -> PriceEffectRename
      [] e = "Action" -> ActionRename
      [] e = "InstrumentType" -> InstrumentTypeRename
      [] e = "OrderType" -> OrderTypeRename
      [] e = "TimeInForce" -> TimeInForceRename
      [] e = "OrderStatus" -> OrderStatusRename

VariantSet(e) == {Variants(e)[i] : i \in 1..Len(Variants(e))}

\* derive(Serialize) on a unit variant: the rename if there is one, else the
\* variant's identifier.
SerializeVariant(e, v) ==
    IF v \in DOMAIN Rename(e) THEN Rename(e)[v] ELSE v

\* The VARIANTS list the derived Deserialize reports in its error.
WireNames(e) == [i \in 1..Len(Variants(e)) |-> SerializeVariant(e, Variants(e)[i])]

EnumOk(v) == [ok |-> TRUE, variant |-> v, unexpected |-> "", expected |-> <<>>]
UnknownVariant(s, names) ==
    [ok |-> FALSE, variant |-> "", unexpected |-> s, expected |-> names]

\* A decoder whose last variant is a catch-all, as under #[serde(other)].
DeserializeVariantWithOther(e, s) ==
    LET hits == {i \in 1..Len(Variants(e)) : WireNames(e)[i] = s} IN
    IF hits = {}
    THEN EnumOk(Variants(e)[Len(Variants(e))])
    ELSE EnumOk(Variants(e)[CHOOSE i \in hits : \A j \in hits : i <= j])

\* derive(Deserialize): the generated match on the wire string, first arm
\* first; any other string is Error::unknown_variant(value, VARIANTS).
DeserializeVariant(e, s) ==
    LET hits == {i \in 1..Len(Variants(e)) : WireNames(e)[i] = s} IN
    IF hits = {}
    THEN UnknownVariant(s, WireNames(e))
    ELSE EnumOk(Variants(e)[CHOOSE i \in hits : \A j \in hits : i <= j])

(***************************************************************************)
(*                 ORDER BUILDER  (order.rs, lines 156-167)                *)
(***************************************************************************)

\* The fields of Order, in declaration order.
OrderFields == <<"time_in_force", "order_type", "price", "price_effect", "legs">>
OrderFieldSet == {OrderFields[i] : i \in 1..Len(OrderFields)}

\* Option<T>
None == [some |-> FALSE]
Some(v) == [some |-> TRUE, val |-> v]

\* A Decimal: an integer mantissa and the number of fractional digits.
Dec(m, sc) == [mantissa |-> m, scale |-> sc]

\* An OrderLeg (lines 169-178).
Leg(it, sym, q, a) ==
    [instrument_type |-> it, symbol |-> sym, quantity |-> q, action |-> a]

\* The values the setters are called with.
FieldValues(f) ==
    CASE f = "time_in_force" -> VariantSet("TimeInForce")
      [] f = "order_type" -> VariantSet("OrderType")
      [] f = "price" -> {Dec(18101, 2), Dec(905050, 2)}
      [] f = "price_effect" -> VariantSet("PriceEffect")
      [] f = "legs" -> {<<>>, <<Leg("Equity", "AAPL", Dec(100, 0), "BuyToOpen")>>}

NoBuild == [tag |-> "None"]
BuildOk(o) == [tag |-> "Ok", order |-> o]
UninitializedField(f) == [tag |-> "Err", field |-> f]

Unset(b) == {i \in 1..Len(OrderFields) : ~b[OrderFields[i]].some}

\* The generated setter: self.<f> = Some(value.into()).
Setter(b, f, v) == [b EXCEPT ![f] = Some(v)]

\* A build() for which price is #[builder(default)]: never required.
BuildOrderPriceDefaulted(b) ==
    LET need == Unset(b) \ {3} IN
    IF need # {}
    THEN UninitializedField(OrderFields[CHOOSE i \in need : \A j \in need : i <= j])
    ELSE BuildOk([f \in OrderFieldSet |->
                    IF b[f].some THEN b[f].val ELSE Dec(0, 0)])

\* The generated OrderBuilder::build: each field in declaration order, the
\* first one that is None returns UninitializedField(<its name>).
BuildOrder(b) ==
    IF Unset(b) # {}
    THEN UninitializedField(
             OrderFields[CHOOSE i \in Unset(b) : \A j \in Unset(b) : i <= j])
    ELSE BuildOk([f \in OrderFieldSet |-> b[f].val])

BuilderInit ==
    /\ builder = [f \in OrderFieldSet |-> None]
    /\ lastSet = [f \in OrderFieldSet |-> None]
    /\ built = NoBuild

\* builder.<f>(v)
Set(f, v) ==
    /\ builder' = Setter(builder, f, v)
    /\ lastSet' = [lastSet EXCEPT ![f] = Some(v)]
    /\ built' = NoBuild
    /\ UNCHANGED <<clientVars, wireVars>>

\* builder.build()
Build ==
    /\ built = NoBuild
    /\ built' = BuildOrder(builder)
    /\ UNCHANGED <<builder, lastSet>>
    /\ UNCHANGED <<clientVars, wireVars>>

BuilderNext ==
    \/ \E f \in OrderFieldSet : \E v \in FieldValues(f) : Set(f, v)
    \/ Build

(***************************************************************************)
(*        DECIMAL CODEC  (order.rs, the arbitrary_precision fields)        *)
(***************************************************************************)

\* JSON values.  TLC's strings are atomic, so a JSON string whose content a
\* parser reads character by character is a JText: its characters in order.
JString(s) == [t |-> "string", v |-> s]
JText(chars) == [t |-> "text", v |-> chars]
JNumber(chars) == [t |-> "number", v |-> chars]
JBool(b) == [t |-> "bool", v |-> b]
JArray(elems) == [t |-> "array", v |-> elems]
JObject(pairs) ==
    [t |-> "object",
     v |-> [k \in {pairs[i][1] : i \in 1..Len(pairs)} |->
              pairs[CHOOSE i \in 1..Len(pairs) : pairs[i][1] = k][2]]]

DigitChars == <<"0", "1", "2", "3", "4", "5", "6", "7", "8", "9">>
IsDigit(c) == \E i \in 1..10 : DigitChars[i] = c
DigitVal(c) == (CHOOSE i \in 1..10 : DigitChars[i] = c) - 1

DecimalOk(d) == [ok |-> TRUE, val |-> d]
Failed == [ok |-> FALSE]

\* Decimal::from_str: digits with at most one point; every digit read after
\* the point adds one to the scale.  No digit is dropped while the mantissa
\* fits Decimal's 96 bits (28 digits always do); the literals below are far
\* shorter.
RECURSIVE ParseFrom(_, _, _, _, _, _)
ParseFrom(text, i, m, sc, point, has) ==
    IF i > Len(text)
    THEN IF has THEN DecimalOk(Dec(m, sc)) ELSE Failed
    ELSE IF IsDigit(text[i])
         THEN ParseFrom(text, i + 1, m * 10 + DigitVal(text[i]),
                        IF point THEN sc + 1 ELSE sc, point, TRUE)
         ELSE IF text[i] = "." /\ ~point
              THEN ParseFrom(text, i + 1, m, sc, TRUE, has)
              ELSE Failed

FromStr(text) == ParseFrom(text, 1, 0, 0, FALSE, FALSE)

RECURSIVE DigitsOf(_)
DigitsOf(n) ==
    IF n < 10 THEN <<DigitChars[n + 1]>>
    ELSE DigitsOf(n \div 10) \o <<DigitChars[(n % 10) + 1]>>

RECURSIVE PadLeft(_, _)
PadLeft(ds, n) == IF Len(ds) >= n THEN ds ELSE PadLeft(<<"0">> \o ds, n)

\* Decimal's Display: every digit of the mantissa, the point `scale` digits
\* from the right, a leading 0 when the integer part is empty.
DisplayDecimal(d) ==
    LET ds == PadLeft(DigitsOf(d.mantissa), d.scale + 1)
        n == Len(ds)
    IN IF d.scale = 0 THEN ds
       ELSE SubSeq(ds, 1, n - d.scale) \o <<".">> \o SubSeq(ds, n - d.scale + 1, n)

\* The decimal with the trailing zeros of its fraction dropped.
RECURSIVE Normalize(_)
Normalize(d) ==
    IF d.scale > 0 /\ d.mantissa % 10 = 0
    THEN Normalize(Dec(d.mantissa \div 10, d.scale - 1))
    ELSE d

\* rust_decimal::serde::arbitrary_precision::deserialize: a decimal is read
\* from a JSON string or from a JSON number, digit for digit.
DeserializeDecimal(j) ==
    IF j.t \in {"text", "number"} THEN FromStr(j.v) ELSE Failed

\* The shortest literal of the same value, as a trip through f64
\* (rust_decimal::serde::float, used for OrderLeg::quantity) writes it.
SerializeDecimalShortest(d) == JNumber(DisplayDecimal(Normalize(d)))

\* rust_decimal::serde::arbitrary_precision::serialize: the decimal's
\* to_string() as a serde_json::Number, i.e. a JSON number literal.
SerializeDecimal(d) == JNumber(DisplayDecimal(d))

\* The decimal literals the codec is exercised on.
MaxIntDigits == 4
MaxFracDigits == 2
LiteralDigits == {"0", "5", "9"}

RECURSIVE DigitStrings(_)
DigitStrings(n) ==
    IF n = 0 THEN {<<>>}
    ELSE LET shorter == DigitStrings(n - 1) IN
         shorter \cup {Append(ds, c) : ds \in {x \in shorter : Len(x) = n - 1},
                                       c \in LiteralDigits}

Literals ==
    {ip \o (IF fp = <<>> THEN <<>> ELSE <<".">> \o fp) :
        ip \in DigitStrings(MaxIntDigits) \ {<<>>},
        fp \in DigitStrings(MaxFracDigits)}

\* Not a decimal: a literal followed by a letter.
Junk == {Append(l, "x") : l \in {<<"5">>, <<"5", ".", "0">>}}

DecimalInputs ==
    {JText(l) : l \in Literals \cup Junk} \cup {JNumber(l) : l \in Literals}

(***************************************************************************)
(*              RECORD DECODING  (order.rs, lines 122-281)                 *)
(***************************************************************************)

\* Field types.
TBool == [k |-> "bool"]
TU64 == [k |-> "u64"]
TString == [k |-> "String"]
TDecimal == [k |-> "Decimal"]
TDecimalAP == [k |-> "DecimalAP"]
TEnum(e) == [k |-> "enum", of |-> e]
TVec(ty) == [k |-> "vec", of |-> ty]
TStruct(n) == [k |-> "struct", of |-> n]

\* A field: its identifier as the words between the underscores, its type.
F(words, ty) == [name |-> words, ty |-> ty]

RECURSIVE Join(_, _)
Join(words, sep) ==
    IF Len(words) = 1 THEN words[1]
    ELSE words[1] \o sep \o Join(Tail(words), sep)

\* The field's identifier in the decoded struct.
Ident(words) == Join(words, "_")

\* The key without rename_all: the identifier as it is.
WireKeyVerbatim(words) == Join(words, "_")

\* #[serde(rename_all = "kebab-case")]: the wire key of a field.
WireKey(words) == Join(words, "-")

LiveOrderRecordFields ==
    <<F(<<"id">>, TDecimal),
      F(<<"account", "number">>, TString),
      F(<<"time", "in", "force">>, TEnum("TimeInForce")),
      F(<<"order", "type">>, TEnum("OrderType")),
      F(<<"size">>, TU64),
      F(<<"underlying", "symbol">>, TString),
      F(<<"underlying", "instrument", "type">>, TEnum("InstrumentType")),
      F(<<"price">>, TDecimalAP),
      F(<<"price", "effect">>, TEnum("PriceEffect")),
      F(<<"status">>, TEnum("OrderStatus")),
      F(<<"cancellable">>, TBool),
      F(<<"editable">>, TBool),
      F(<<"edited">>, TBool),
      F(<<"received", "at">>, TString),
      F(<<"updated", "at">>, TU64),
      F(<<"global", "request", "id">>, TString),
      F(<<"legs">>, TVec(TStruct("LiveOrderLeg")))>>

LiveOrderLegFields ==
    <<F(<<"instrument", "type">>, TEnum("InstrumentType")),
      F(<<"symbol">>, TString),
      F(<<"quantity">>, TDecimal),
      F(<<"remaining", "quantity">>, TDecimal),
      F(<<"action">>, TEnum("Action")),
      F(<<"fills">>, TVec(TString))>>

OrderPlacedResultFields ==
    <<F(<<"order">>, TStruct("LiveOrderRecord")),
      F(<<"warnings">>, TVec(TStruct("Warning"))),
      F(<<"buying", "power", "effect">>, TStruct("BuyingPowerEffect")),
      F(<<"fee", "calculation">>, TStruct("FeeCalculation"))>>

BuyingPowerEffectFields ==
    <<F(<<"change", "in", "margin", "requirement">>, TDecimalAP),
      F(<<"change", "in", "margin", "requirement", "effect">>, TEnum("PriceEffect")),
      F(<<"change", "in", "buying", "power">>, TDecimalAP),
      F(<<"change", "in", "buying", "power", "effect">>, TEnum("PriceEffect")),
      F(<<"current", "buying", "power">>, TDecimalAP),
      F(<<"current", "buying", "power", "effect">>, TEnum("PriceEffect")),
      F(<<"new", "buying", "power">>, TDecimalAP),
      F(<<"new", "buying", "power", "effect">>, TEnum("PriceEffect")),
      F(<<"isolated", "order", "margin", "requirement">>, TDecimalAP),
      F(<<"isolated", "order", "margin", "requirement", "effect">>, TEnum("PriceEffect")),
      F(<<"is", "spread">>, TBool),
      F(<<"impact">>, TDecimalAP),
      F(<<"effect">>, TEnum("PriceEffect"))>>

FeeCalculationFields ==
    <<F(<<"regulatory", "fees">>, TDecimal),
      F(<<"regulatory", "fees", "effect">>, TEnum("PriceEffect")),
      F(<<"clearing", "fees">>, TDecimal),
      F(<<"clearing", "fees", "effect">>, TEnum("PriceEffect")),
      F(<<"commission">>, TDecimal),
      F(<<"commission", "effect">>, TEnum("PriceEffect")),
      F(<<"proprietary", "index", "option", "fees">>, TDecimal),
      F(<<"proprietary", "index", "option", "fees", "effect">>, TEnum("PriceEffect")),
      F(<<"total", "fees">>, TDecimalAP),
      F(<<"total", "fees", "effect">>, TEnum("PriceEffect"))>>

WarningFields == <<F(<<"code">>, TString), F(<<"message">>, TString)>>

Fields(n) ==
    CASE n = "LiveOrderRecord" -> LiveOrderRecordFields
      [] n = "LiveOrderLeg" -> LiveOrderLegFields
      [] n = "OrderPlacedResult" -> OrderPlacedResultFields
      [] n = "BuyingPowerEffect" -> BuyingPowerEffectFields
      [] n = "FeeCalculation" -> FeeCalculationFields
      [] n = "Warning" -> WarningFields

Decoded(v) == [ok |-> TRUE, val |-> v]

\* derive(Deserialize): a struct decodes when every field's wire key is
\* present and its value decodes; unknown keys are ignored; the first field
\* that fails fails the whole struct.
RECURSIVE Deserialize(_, _)
Deserialize(ty, j) ==
    CASE ty.k = "bool" -> IF j.t = "bool" THEN Decoded(j.v) ELSE Failed
      [] ty.k = "String" ->
            IF j.t \in {"string", "text"} THEN Decoded(j.v) ELSE Failed
      [] ty.k = "u64" ->
            IF j.t = "number" /\ FromStr(j.v).ok /\ FromStr(j.v).val.scale = 0
            THEN Decoded(FromStr(j.v).val.mantissa) ELSE Failed
      [] ty.k \in {"Decimal", "DecimalAP"} -> DeserializeDecimal(j)
      [] ty.k = "enum" ->
            IF j.t = "string" /\ DeserializeVariant(ty.of, j.v).ok
            THEN Decoded(DeserializeVariant(ty.of, j.v).variant) ELSE Failed
      [] ty.k = "vec" ->
            IF j.t = "array"
               /\ \A i \in 1..Len(j.v) : Deserialize(ty.of, j.v[i]).ok
            THEN Decoded([i \in 1..Len(j.v) |-> Deserialize(ty.of, j.v[i]).val])
            ELSE Failed
      [] ty.k = "struct" ->
            LET fs == Fields(ty.of)
                at(id) == fs[CHOOSE i \in 1..Len(fs) : Ident(fs[i].name) = id]
            IN IF j.t = "object"
                  /\ \A i \in 1..Len(fs) :
                        /\ WireKey(fs[i].name) \in DOMAIN j.v
                        /\ Deserialize(fs[i].ty, j.v[WireKey(fs[i].name)]).ok
               THEN Decoded([id \in {Ident(fs[i].name) : i \in 1..Len(fs)} |->
                        Deserialize(at(id).ty, j.v[WireKey(at(id).name)]).val])
               ELSE Failed

\* The order-placement payload of tests::test_derp (lines 291-293), with the
\* order's status, the leg's action, the number of warnings, the is-spread
\* flag and the spelling of the compound top-level keys left open.
MaxWarnings == 2

ExampleWarning ==
    JObject(<<
      <<"code", JString("tif_next_valid_sesssion")>>,
      <<"message",
        JString("Your order will begin working during next valid session.")>> >>)

ExampleLeg(action) ==
    JObject(<<
      <<"instrument-type", JString("Equity")>>,
      <<"symbol", JString("AAPL")>>,
      <<"quantity", JNumber(<<"1", "0", "0">>)>>,
      <<"remaining-quantity", JNumber(<<"1", "0", "0">>)>>,
      <<"action", JString(action)>>,
      <<"fills", JArray(<<>>)>> >>)

ExampleOrder(status, action) ==
    JObject(<<
      <<"id", JNumber(<<"1", "2", "9", "3", "5", "9">>)>>,
      <<"account-number", JString("5WU44237")>>,
      <<"time-in-force", JString("Day")>>,
      <<"order-type", JString("Limit")>>,
      <<"size", JNumber(<<"1", "0", "0">>)>>,
      <<"underlying-symbol", JString("AAPL")>>,
      <<"underlying-instrument-type", JString("Equity")>>,
      <<"price", JText(<<"1", "8", "1", ".", "0", "1">>)>>,
      <<"price-effect", JString("Debit")>>,
      <<"status", JString(status)>>,
      <<"cancellable", JBool(TRUE)>>,
      <<"editable", JBool(TRUE)>>,
      <<"edited", JBool(FALSE)>>,
      <<"received-at", JString("2024-02-11T21:59:57.143+00:00")>>,
      <<"updated-at", JNumber(<<"1", "2", "3", "4">>)>>,
      <<"global-request-id", JString("153cc8811e19d5aba6c9bfa083251e56")>>,
      <<"legs", JArray(<<ExampleLeg(action)>>)>> >>)

ExampleBuyingPowerEffect(isSpread) ==
    JObject(<<
      <<"change-in-margin-requirement", JText(<<"9", "0", "5", "0", ".", "5">>)>>,
      <<"change-in-margin-requirement-effect", JString("Debit")>>,
      <<"change-in-buying-power", JText(<<"9", "0", "5", "0", ".", "5", "8">>)>>,
      <<"change-in-buying-power-effect", JString("Debit")>>,
      <<"current-buying-power", JText(<<"1", "0", "0", "5", "6", ".", "3", "1">>)>>,
      <<"current-buying-power-effect", JString("Credit")>>,
      <<"new-buying-power", JText(<<"1", "0", "0", "5", ".", "7", "3">>)>>,
      <<"new-buying-power-effect", JString("Credit")>>,
      <<"isolated-order-margin-requirement", JText(<<"9", "0", "5", "0", ".", "5">>)>>,
      <<"isolated-order-margin-requirement-effect", JString("Debit")>>,
      <<"is-spread", JBool(isSpread)>>,
      <<"impact", JText(<<"9", "0", "5", "0", ".", "5", "8">>)>>,
      <<"effect", JString("Debit")>> >>)

ExampleFeeCalculation ==
    JObject(<<
      <<"regulatory-fees", JText(<<"0", ".", "0">>)>>,
      <<"regulatory-fees-effect", JString("None")>>,
      <<"clearing-fees", JText(<<"0", ".", "0", "8">>)>>,
      <<"clearing-fees-effect", JString("Debit")>>,
      <<"commission", JText(<<"0", ".", "0">>)>>,
      <<"commission-effect", JString("None")>>,
      <<"proprietary-index-option-fees", JText(<<"0", ".", "0">>)>>,
      <<"proprietary-index-option-fees-effect", JString("None")>>,
      <<"total-fees", JText(<<"0", ".", "0", "8">>)>>,
      <<"total-fees-effect", JString("Debit")>> >>)

ExamplePayload(status, action, nWarnings, isSpread, keys) ==
    JObject(<<
      <<"order", ExampleOrder(status, action)>>,
      <<"warnings", JArray([i \in 1..nWarnings |-> ExampleWarning])>>,
      <<IF keys = "kebab" THEN "buying-power-effect" ELSE "buying_power_effect",
        ExampleBuyingPowerEffect(isSpread)>>,
      <<IF keys = "kebab" THEN "fee-calculation" ELSE "fee_calculation",
        ExampleFeeCalculation>> >>)

\* The strings the enum decoders are probed with: every wire name and every
\* identifier of every enum, and spellings that differ in case or spacing.
AllWireNames ==
    UNION {{SerializeVariant(e, v) : v \in VariantSet(e)} : e \in Enums}
AllIdentifiers == UNION {VariantSet(e) : e \in Enums}
ProbeStrings ==
    AllWireNames \cup AllIdentifiers
    \cup {"buy to open", "BUY TO OPEN", "Buy  to Open", "received", "day", ""}

StatusInputs ==
    {SerializeVariant("OrderStatus", v) : v \in VariantSet("OrderStatus")}
    \cup {"received", "InFlight"}
ActionInputs == {"Buy to Open", "Sell to Close", "buy to open", "BuyToOpen"}

\* A codec operation starts from a fresh input.
Fresh == op = "none"

WireInit ==
    /\ op = "none"
    /\ input = <<>>
    /\ output = <<>>

\* serde_json::to_string(&variant)
EncodeVariant(e, v) ==
    /\ Fresh
    /\ op' = "encode_enum"
    /\ input' = [enum |-> e, variant |-> v]
    /\ output' = JString(SerializeVariant(e, v))
    /\ UNCHANGED <<clientVars, builderVars>>

\* serde_json::from_str of what the last encode_enum wrote
DecodeEncoded ==
    /\ op = "encode_enum"
    /\ op' = "roundtrip_enum"
    /\ input' = [enum |-> input.enum, variant |-> input.variant,
                 wire |-> output.v]
    /\ output' = DeserializeVariant(input.enum, output.v)
    /\ UNCHANGED <<clientVars, builderVars>>

\* serde_json::from_str::<E>(s) of an arbitrary string
DecodeVariant(e, s) ==
    /\ Fresh
    /\ op' = "decode_enum"
    /\ input' = [enum |-> e, wire |-> s]
    /\ output' = DeserializeVariant(e, s)
    /\ UNCHANGED <<clientVars, builderVars>>

\* an arbitrary_precision field read from the wire
DecodeDecimal(j) ==
    /\ Fresh
    /\ op' = "decode_decimal"
    /\ input' = j
    /\ output' = DeserializeDecimal(j)
    /\ UNCHANGED <<clientVars, builderVars>>

\* the decimal just read, written back
ReencodeDecimal ==
    /\ op = "decode_decimal"
    /\ output.ok
    /\ op' = "reencode_decimal"
    /\ input' = [wire |-> input, decimal |-> output.val]
    /\ output' = SerializeDecimal(output.val)
    /\ UNCHANGED <<clientVars, builderVars>>

\* serde_json::from_str::<OrderPlacedResult>(&json), as in tests::test_derp
DecodeOrderPlacedResult(status, action, n, isSpread, keys) ==
    /\ Fresh
    /\ op' = "decode_record"
    /\ input' = [status |-> status, action |-> action, warnings |-> n,
                 is_spread |-> isSpread, keys |-> keys]
    /\ output' = Deserialize(TStruct("OrderPlacedResult"),
                             ExamplePayload(status, action, n, isSpread, keys))
    /\ UNCHANGED <<clientVars, builderVars>>

WireNext ==
    \/ Fresh /\ \E e \in Enums : \E v \in VariantSet(e) : EncodeVariant(e, v)
    \/ DecodeEncoded
    \/ Fresh /\ \E e \in Enums, s \in ProbeStrings : DecodeVariant(e, s)
    \/ Fresh /\ \E j \in DecimalInputs : DecodeDecimal(j)
    \/ ReencodeDecimal
    \/ Fresh /\ \E status \in StatusInputs, action \in ActionInputs,
                   n \in 0..MaxWarnings, isSpread \in BOOLEAN,
                   keys \in {"kebab", "snake"} :
                     DecodeOrderPlacedResult(status, action, n, isSpread, keys)

(***************************************************************************)
(*                            SPECIFICATIONS                               *)
(***************************************************************************)

Init == ClientInit /\ BuilderInit /\ WireInit

SpecClient == Init /\ [][ClientNext]_vars

SpecBuilder == Init /\ [][BuilderNext]_vars

SpecWire == Init /\ [][WireNext]_vars

(***************************************************************************)
(*                               CLAIMS                                    *)
(***************************************************************************)

LoginOver == loginPc \in {"done", "panicked"}
CallOver(c) == pc[c] \in {"done", "panicked"}
OwnResponses(c) == {k \in 1..Len(arrived) : arrived[k].for = c}
WireNameSet(e) == {SerializeVariant(e, v) : v \in VariantSet(e)}

\* What the body's shape alone prescribes for a response that arrived.
ShapeDecides(r, res) ==
    /\ r.body.shape = "error" =>
          res = Err("Broker", r.body.code, r.body.message)
    /\ r.body.shape = "success" => res = Ok(r.body.data)

\* C1: for login, get and post, a response body of the error shape always
\* yields Err with the broker error and a body of the success shape always
\* yields Ok with the inner data, whatever the HTTP status is.
C1_BodyShapeDecidesOutcome ==
    /\ (LoginOver /\ loginResp.ok) => ShapeDecides(loginResp, loginResult)
    /\ \A c \in Calls :
          (pc[c] = "done" /\ ResponseOf(c).ok) =>
              ShapeDecides(ResponseOf(c), result[c])

\* C1, the part the code keeps: get and post decide by the body's shape
\* alone, under every status code.
GetPostDecideByShape ==
    \A c \in Calls :
        (pc[c] = "done" /\ ResponseOf(c).ok) =>
            ShapeDecides(ResponseOf(c), result[c])

\* C2: each call of login, get or post issues exactly one outbound request
\* and then returns; no path sends a second one.
C2_ExactlyOneRequestPerCall ==
    /\ loginSent <= 1
    /\ LoginOver => loginSent = 1
    /\ \A c \in Calls : sent[c] <= 1 /\ (CallOver(c) => sent[c] = 1)

\* C2, the part the code keeps: no call ever sends a second request, and a
\* call that returned sent exactly one.
NoRetry ==
    /\ loginSent <= 1
    /\ \A c \in Calls : sent[c] <= 1 /\ (pc[c] = "done" => sent[c] = 1)

\* C3: every failure inside login, get or post is returned to the caller as
\* a typed error result; no operation panics.
C3_EveryFailureIsATypedError ==
    /\ loginPc # "panicked"
    /\ loginPc = "done" => loginResult.tag \in {"Ok", "Err"}
    /\ \A c \in Calls :
          /\ pc[c] # "panicked"
          /\ pc[c] = "done" => result[c].tag \in {"Ok", "Err"}

\* C4: each of the concurrent get calls returns the result decoded from the
\* response to its own request, under every interleaving.
C4_NoCrossTalk ==
    \A c \in Calls :
        (pc[c] = "done" /\ method[c] = "get") =>
            /\ Cardinality(OwnResponses(c)) = 1
            /\ \A k \in OwnResponses(c) : result[c] = Outcome(arrived[k])

\* Call 1 has returned its own payload although call 2's different response
\* was the last to arrive.
C4_Witness ==
    /\ method[1] = "get" /\ method[2] = "get"
    /\ Len(arrived) = 2
    /\ arrived[1] = Response(1, 200, SuccessBody("d1"))
    /\ arrived[2] = Response(2, 200, SuccessBody("d2"))
    /\ pc[1] = "done" /\ result[1] = Ok("d1")
    /\ pc[2] = "awaiting"

\* C10: a client exists only after a login answered with the success shape;
\* every request of get or post carries exactly the credential of that login
\* response, and the credential the client holds stays that one.
C10_CredentialFixedAtLogin ==
    /\ client.exists =>
          /\ loginPc = "done"
          /\ loginResp.ok /\ loginResp.body.shape = "success"
          /\ client.session_token = loginResp.body.data
    /\ \A r \in requests :
          client.exists /\ r.auth = loginResp.body.data
    /\ (\E c \in Calls : pc[c] # "idle") => client.exists

\* One call has failed and the other succeeded, both sent with "tokB".
C10_Witness ==
    /\ client.session_token = "tokB"
    /\ pc[1] = "done" /\ result[1].tag = "Err"
    /\ pc[2] = "done" /\ result[2].tag = "Ok"
    /\ \A r \in requests : r.auth = "tokB"
    /\ Cardinality(requests) = 2

\* C5: build fails with the name of an absent field when one of the five
\* required fields was never set ("price" when only price is absent), and
\* returns an Order holding the last values set when all five were set.
C5_BuildRequiresAllFields ==
    built.tag # "None" =>
        IF \E f \in OrderFieldSet : ~lastSet[f].some
        THEN /\ built.tag = "Err"
             /\ ~lastSet[built.field].some
             /\ (\A f \in OrderFieldSet \ {"price"} : lastSet[f].some)
                    => built.field = "price"
        ELSE /\ built.tag = "Ok"
             /\ \A f \in OrderFieldSet : built.order[f] = lastSet[f].val

\* build() was called with every field set but price.
C5_Witness ==
    /\ built = UninitializedField("price")
    /\ \A f \in OrderFieldSet \ {"price"} : lastSet[f].some
    /\ lastSet["legs"].val # <<>>

\* C6: decode(encode(V)) = V for every variant of the six enums; no two
\* variants of an enum share a wire string; renamed variants use the broker
\* string and the others their identifier.
C6_EnumRoundTrip ==
    /\ op = "roundtrip_enum" =>
          output.ok /\ output.variant = input.variant
    /\ op = "encode_enum" =>
          /\ output.t = "string"
          /\ input.variant \notin DOMAIN Rename(input.enum)
                => output.v = input.variant
          /\ (input.enum = "Action" /\ input.variant = "BuyToOpen")
                => output.v = "Buy to Open"
          /\ (input.enum = "TimeInForce" /\ input.variant = "GTCExt")
                => output.v = "GTC Ext"
    /\ \A e \in Enums : \A v, w \in VariantSet(e) :
          SerializeVariant(e, v) = SerializeVariant(e, w) => v = w

\* Action::SellToOpen went to the wire and came back.
C6_Witness ==
    /\ op = "roundtrip_enum"
    /\ input = [enum |-> "Action", variant |-> "SellToOpen",
                wire |-> "Sell to Open"]
    /\ output = EnumOk("SellToOpen")

UnknownInput ==
    op = "decode_enum" /\ input.wire \notin WireNameSet(input.enum)
RecordWithUnknownVariant ==
    /\ op = "decode_record"
    /\ \/ input.status \notin WireNameSet("OrderStatus")
       \/ input.action \notin WireNameSet("Action")

\* C7 as stated: a string that is not a wire string of the enum fails with
\* an error carrying the offending string and the enum's name, never a
\* default variant, and the enclosing record fails as a whole.
C7_UnknownVariantCarriesEnumName ==
    /\ UnknownInput =>
          /\ ~output.ok
          /\ output.unexpected = input.wire
          /\ \/ output.unexpected = input.enum
             \/ \E i \in DOMAIN output.expected : output.expected[i] = input.enum
    /\ RecordWithUnknownVariant => ~output.ok

\* C7 as amended: the error carries the offending string and the list of
\* the enum's wire strings; never a default variant; the enclosing record
\* fails as a whole.
C7_UnknownVariantFails ==
    /\ UnknownInput =>
          /\ ~output.ok
          /\ output.unexpected = input.wire
          /\ {output.expected[i] : i \in DOMAIN output.expected}
                = WireNameSet(input.enum)
    /\ RecordWithUnknownVariant => ~output.ok

\* "buy to open" was decoded as an Action.
C7_Witness ==
    /\ op = "decode_enum"
    /\ input = [enum |-> "Action", wire |-> "buy to open"]
    /\ ~output.ok

\* A decimal literal with no redundant leading zero.
Canonical(text) == Len(text) = 1 \/ text[1] # "0" \/ text[2] = "."

C9_PlacedResultDecodes ==
    (/\ op = "decode_record"
     /\ input.keys = "kebab"
     /\ input.status \in WireNameSet("OrderStatus")
     /\ input.action \in WireNameSet("Action")) =>
        /\ output.ok
        /\ SerializeVariant("OrderStatus", output.val["order"]["status"])
              = input.status
        /\ input.status = "Received"
              => output.val["order"]["status"] = "Received"
        /\ Len(output.val["warnings"]) = input.warnings
        /\ output.val["buying_power_effect"]["is_spread"] = input.is_spread

\* The payload of tests::test_derp was decoded.
C9_Witness ==
    /\ op = "decode_record"
    /\ input = [status |-> "Received", action |-> "Buy to Open",
                warnings |-> 1, is_spread |-> FALSE, keys |-> "kebab"]
    /\ output.ok
    /\ output.val["order"]["status"] = "Received"
    /\ output.val["order"]["price"] = Dec(18101, 2)
    /\ output.val["order"]["legs"][1]["action"] = "BuyToOpen"
    /\ Len(output.val["warnings"]) = 1
    /\ output.val["buying_power_effect"]["is_spread"] = FALSE

=============================================================================
